---- MODULE Spec2Model ----
(***************************************************************************)
(* Model of src/main.py (jump-or-die): the player kinematics, the obstacle *)
(* generator with its reachability window, the circle/rectangle collision  *)
(* test and the run state machine (Running / GameOver / reset).            *)
(*                                                                         *)
(* Numbers.  Horizontal quantities and the obstacle fields are whole       *)
(* pixels, as in the source.  The player's y and vel_y are Python floats   *)
(* that are sums of multiples of 0.8 added to 500.0 or 990.0; they are     *)
(* kept here in tenths of a pixel (PX), which represents every such value  *)
(* exactly.  The one place where the rounding of IEEE doubles changes a    *)
(* result of the program is math.ceil in calculate_gap_position; it is     *)
(* modelled by FallResidue / Ulp46 / AddResidue below.                     *)
(***************************************************************************)
EXTENDS Integers, Sequences, FiniteSets, TLC

VARIABLES
    player_y,     \* Player.y, tenths of a pixel
    vel_y,        \* Player.vel_y, tenths of a pixel per frame
    world_x,      \* Game.world_x, pixels
    obstacles,    \* Game.obstacles, sequence of Obstacle records
    game_over,    \* Game.game_over
    last,         \* history: the loop step or input event handled last
    call,         \* SpecFn: the function call under test and its arguments
    ret,          \* SpecFn: what the call returned
    reach         \* SpecPass: player states some jump sequence leads to

vars == <<player_y, vel_y, world_x, obstacles, game_over, last, call, ret, reach>>

gameVars == <<player_y, vel_y, world_x, obstacles, game_over>>

(***************************************************************************)
(* Bounds of the model                                                     *)
(***************************************************************************)
MaxWorldX == 520      \* Tick is not taken once world_x has reached this
PassStep == 11        \* SpecPass: both ends of the window and every PassStep-th value
GapStep == 500        \* randint draws: both ends and every GapStep-th value
JumpEvery == 24       \* SPACE while running: only at world_x multiples of this
JumpRange == 60       \* ... and only with an obstacle this near ahead

(***************************************************************************)
(* Program constants                                                       *)
(***************************************************************************)
WIDTH == 700
HEIGHT == 1000
FPS == 60
OBSTACLE_WIDTH == 25
speed == 2
max_jumps_per_second == 5

PX(n) == n * 10

Max(a, b) == IF a >= b THEN a ELSE b
Min(a, b) == IF a <= b THEN a ELSE b
Abs(a) == IF a < 0 THEN -a ELSE a
Floor10(n) == n \div 10
Ceil10(n) == -((-n) \div 10)

PLAYER_RADIUS == HEIGHT \div 100

(***************************************************************************)
(* Player                                                                  *)
(***************************************************************************)
player_x == WIDTH \div 4
start_y == PX(HEIGHT) \div 2
radius == PLAYER_RADIUS
jump_power == -((PX(HEIGHT) * 12) \div 1000)
gravity == (PX(HEIGHT) * 8) \div 10000

Ground == PX(HEIGHT - radius)

\* Player.jump: the velocity is set, not added
jump(v) == jump_power

\* the test of line 65 on the values of lines 61-62
ClampApplies(y, v) == y + (v + gravity) >= Ground

\* mutant: the ground clamp leaves the velocity as it is
update_position_keep_vel(y, v) ==
    LET v1 == v + gravity
        y1 == y + v1
    IN  [y |-> IF y1 >= Ground THEN Ground ELSE y1, vel_y |-> v1]

\* mutant: the position is moved before gravity is applied
update_position_then_gravity(y, v) ==
    LET y1 == y + v
        v1 == v + gravity
    IN  IF y1 >= Ground
        THEN [y |-> Ground, vel_y |-> 0]
        ELSE [y |-> y1, vel_y |-> v1]

update_position(y, v) ==
    LET v1 == v + gravity
        y1 == y + v1
    IN  IF y1 >= Ground
        THEN [y |-> Ground, vel_y |-> 0]
        ELSE [y |-> y1, vel_y |-> v1]

(***************************************************************************)
(* Obstacle                                                                *)
(***************************************************************************)
\* mutant: the bottom block's height forgets the gap
ObstacleNoGap(x, gap, gap_y) ==
    LET gy == Max(0, Min(HEIGHT - gap, gap_y))
    IN  [world_x |-> x, width |-> OBSTACLE_WIDTH, gap |-> gap, gap_y |-> gy,
         r1_y |-> 0, r1_height |-> gy, r2_y |-> gy + gap, r2_height |-> HEIGHT - gy]

Obstacle(x, gap, gap_y) ==
    LET gy == Max(0, Min(HEIGHT - gap, gap_y))
        r2y == gy + gap
    IN  [world_x |-> x, width |-> OBSTACLE_WIDTH, gap |-> gap, gap_y |-> gy,
         r1_y |-> 0, r1_height |-> gy, r2_y |-> r2y, r2_height |-> HEIGHT - r2y]

get_screen_x(o, wx) == o.world_x - wx

(***************************************************************************)
(* Collision: circle against the two blocks of every live obstacle.        *)
(* px, py, r and the block extents are in tenths of a pixel.               *)
(***************************************************************************)
\* mutant: touching counts as a collision
BlockHitOrTouch(px, py, r, x, w, ry, rh) ==
    LET closest_x == Max(x, Min(px, x + w))
        closest_y == Max(ry, Min(py, ry + rh))
        dx == px - closest_x
        dy == py - closest_y
    IN  dx * dx + dy * dy <= r * r

BlockHit(px, py, r, x, w, ry, rh) ==
    LET closest_x == Max(x, Min(px, x + w))
        closest_y == Max(ry, Min(py, ry + rh))
        dx == px - closest_x
        dy == py - closest_y
    IN  dx * dx + dy * dy < r * r

\* mutant: only the top block of an obstacle is tested
CollisionAtTopOnly(px, py, r, obs, wx) ==
    \E i \in 1..Len(obs) :
        LET o == obs[i]
            x == PX(get_screen_x(o, wx))
        IN  BlockHit(px, py, r, x, PX(o.width), PX(o.r1_y), PX(o.r1_height))

CollisionAt(px, py, r, obs, wx) ==
    \E i \in 1..Len(obs) :
        LET o == obs[i]
            x == PX(get_screen_x(o, wx))
        IN  \/ BlockHit(px, py, r, x, PX(o.width), PX(o.r1_y), PX(o.r1_height))
            \/ BlockHit(px, py, r, x, PX(o.width), PX(o.r2_y), PX(o.r2_height))

collision == CollisionAt(PX(player_x), player_y, PX(radius), obstacles, world_x)

\* Player.get_max_rise: t_up = -v0 / gravity, rise = |v0*t_up + 0.5*g*t_up^2|,
\* in tenths of a pixel
get_max_rise ==
    LET v0 == jump_power
        t_up == (-v0) \div gravity
    IN  Abs(v0 * t_up + (gravity * t_up * t_up) \div 2)

\* Player.get_min_gap, in pixels
get_min_gap == Ceil10(PX(radius * 2) + get_max_rise)

(***************************************************************************)
(* Generator                                                               *)
(***************************************************************************)
\* mutant: the gap is the rise alone, without the player's diameter
calculate_gap_height_rise_only ==
    LET v0 == jump_power
        t_up == (-v0) \div gravity
        rise == Abs(v0 * t_up + (gravity * t_up * t_up) \div 2)
    IN  rise \div 10

\* t_up = -v0 / gravity (15.0) and rise = |v0*t_up + 0.5*g*t_up^2| (90.0)
calculate_gap_height ==
    LET v0 == jump_power
        t_up == (-v0) \div gravity
        rise == Abs(v0 * t_up + (gravity * t_up * t_up) \div 2)
    IN  (((PX(radius * 2) + rise) * 15) \div 10) \div 10

RECURSIVE JumpFrames(_, _, _)
JumpFrames(y, v, frames) ==
    LET y1 == y + v
    IN  IF y1 >= 0 THEN frames + 1 ELSE JumpFrames(y1, v + gravity, frames + 1)

\* min_dist and max_dist; the third, random, value returned is never used
calculate_spawn_distance ==
    LET jump_distance_x == JumpFrames(0, jump_power, 0) * speed
    IN  [min_dist |-> (jump_distance_x + radius * 4) \div 2,
         max_dist |-> (jump_distance_x * 3 + radius * 4) \div 2]

RECURSIVE RiseLoop(_, _, _, _, _)
RiseLoop(i, frames, v, y, max_increase) ==
    IF i >= frames THEN -max_increase
    ELSE LET frames_per_jump == FPS \div max_jumps_per_second
             v1 == (IF i % frames_per_jump = 0 THEN v + jump_power ELSE v) + gravity
             y1 == y + v1
         IN  RiseLoop(i + 1, frames, v1, y1, IF y1 < max_increase THEN y1 ELSE max_increase)

\* tenths of a pixel; the double is this value less a rounding error below
\* 2^-40, which math.floor of line 353 cannot see
calculate_max_height_increase(x) == RiseLoop(0, x \div speed, 0, 0, 0)

RECURSIVE FallLoop(_, _, _, _)
\* mutant: one frame per pixel of distance, the division by speed forgotten
calculate_max_height_decrease_per_pixel(x) ==
    LET fall[i \in 0..x] == IF i = 0 THEN 0 ELSE fall[i - 1] + i * gravity
    IN  fall[x]

FallLoop(i, frames, v, y) ==
    IF i >= frames THEN Max(0, y)
    ELSE FallLoop(i + 1, frames, v + gravity, y + v + gravity)

\* tenths of a pixel, without the rounding error of the double
calculate_max_height_decrease(x) == FallLoop(0, x \div speed, 0, 0)

(***************************************************************************)
(* Rounding of the doubles in lines 340-341 and 354.  After `frames`       *)
(* additions of 0.8 the double y of calculate_max_height_decrease exceeds  *)
(* the exact value by FallResidue(frames) * 2^-46 whenever the exact value *)
(* is a whole number (frames <= 26).  Adding the integer y0 rounds that    *)
(* excess to the spacing of doubles near the sum, ties to the even         *)
(* neighbour, which is the whole number.  math.ceil then sees any excess   *)
(* that is left.                                                           *)
(***************************************************************************)
FallResidue(frames) ==
    IF frames \in {19, 20} THEN 2 ELSE IF frames \in {24, 25} THEN 4 ELSE 0

Ulp46(n) ==
    IF n < 128 THEN 1 ELSE IF n < 256 THEN 2 ELSE IF n < 512 THEN 4
    ELSE IF n < 1024 THEN 8 ELSE 16

AddResidue(n, r) == LET u == Ulp46(n) IN u * ((2 * r + u - 1) \div (2 * u))

\* mutant: the lower bound is capped at the screen height, not HEIGHT - gap
GapWindowNoGap(y0, x_distance, gap_height) ==
    LET max_inc == calculate_max_height_increase(x_distance)
        max_dec == calculate_max_height_decrease(x_distance)
    IN  [highest |-> Floor10(Max(0, PX(y0) - max_inc)),
         lowest |-> Ceil10(Min(PX(HEIGHT), PX(y0) + max_dec))]

\* highest_gap_position and lowest_gap_position of lines 353-354
GapWindow(y0, x_distance, gap_height) ==
    LET max_inc == calculate_max_height_increase(x_distance)
        max_dec == calculate_max_height_decrease(x_distance)
        cap == PX(HEIGHT - gap_height)
        sum == PX(y0) + max_dec
        up == IF sum % 10 = 0
                 /\ AddResidue(sum \div 10, FallResidue(x_distance \div speed)) > 0
              THEN 1 ELSE 0
    IN  [highest |-> Floor10(Max(0, PX(y0) - max_inc)),
         lowest |-> IF cap <= sum THEN Ceil10(cap) ELSE Ceil10(sum) + up]

\* random.randint(a, b): the values drawn in the model; a > b has none
\* (random.randint raises ValueError)
RandInt(a, b) == {n \in a..b : n = a \/ n = b \/ (n - a) % GapStep = 0}

(***************************************************************************)
(* spawn_obstacle.  PrevOf is lines 364-372: the last obstacle, or the     *)
(* virtual predecessor of the first one.                                   *)
(***************************************************************************)
PrevOf(obs) ==
    IF obs = <<>>
    THEN [gap_y |-> HEIGHT \div 2, x |-> (WIDTH * 6) \div 10, width |-> 0]
    ELSE [gap_y |-> obs[Len(obs)].gap_y, x |-> obs[Len(obs)].world_x,
          width |-> obs[Len(obs)].width]

\* calculate_gap_position's window for the spawn distance and gap height of
\* the game (line 382), tabulated over the gap positions an obstacle can have
WindowTable ==
    [y0 \in 0..HEIGHT |->
        GapWindow(y0, calculate_spawn_distance.min_dist, calculate_gap_height)]

\* the window calculate_gap_position computes for the next spawn (line 382)
SpawnWindow(obs) ==
    IF PrevOf(obs).gap_y \in DOMAIN WindowTable
    THEN WindowTable[PrevOf(obs).gap_y]
    ELSE GapWindow(PrevOf(obs).gap_y, calculate_spawn_distance.min_dist,
                   calculate_gap_height)

\* the values gap_y_position_random may take (line 355)
calculate_gap_position(obs) ==
    LET w == SpawnWindow(obs) IN RandInt(w.highest, w.lowest)

\* mutant: the obstacle is placed at the far end of the spawn distance range
spawn_obstacle_max_dist(obs, gap_y_position_random) ==
    LET prev == PrevOf(obs)
        spawn_x == prev.x + prev.width + calculate_spawn_distance.max_dist
    IN  Append(obs, Obstacle(spawn_x, calculate_gap_height, gap_y_position_random))

spawn_obstacle(obs, gap_y_position_random) ==
    LET prev == PrevOf(obs)
        spawn_x == prev.x + prev.width + calculate_spawn_distance.min_dist
    IN  Append(obs, Obstacle(spawn_x, calculate_gap_height, gap_y_position_random))

\* mutant: the spawn test looks at the oldest live obstacle
NeedsSpawnFirst(obs, wx) == obs = <<>> \/ get_screen_x(obs[1], wx) < WIDTH

NeedsSpawn(obs, wx) == obs = <<>> \/ get_screen_x(obs[Len(obs)], wx) < WIDTH

\* mutant: an obstacle whose right edge is at 0 is kept
OnScreenOrTouching(obs, wx) == SelectSeq(obs, LAMBDA o : get_screen_x(o, wx) + o.width >= 0)

\* mutant: the comparison of the removal test is inverted
OnScreenInverted(obs, wx) == SelectSeq(obs, LAMBDA o : get_screen_x(o, wx) + o.width <= 0)

OnScreen(obs, wx) == SelectSeq(obs, LAMBDA o : get_screen_x(o, wx) + o.width > 0)

(***************************************************************************)
(* The game loop: handle_events (one action per event) and update_world    *)
(***************************************************************************)
GameInit ==
    /\ player_y = start_y
    /\ vel_y = 0
    /\ world_x = 0
    /\ obstacles = <<>>
    /\ game_over = FALSE

Idle ==
    /\ call = [op |-> "none"]
    /\ ret = [op |-> "none"]
    /\ reach = {}

Init == GameInit /\ last = "init" /\ Idle

\* an obstacle is at most JumpRange ahead of the player and not yet behind
ObstacleNear ==
    \E i \in 1..Len(obstacles) :
        /\ get_screen_x(obstacles[i], world_x) - player_x <= JumpRange
        /\ get_screen_x(obstacles[i], world_x) + obstacles[i].width >= player_x - radius

\* KEYDOWN K_SPACE (line 277): Player.jump, in either state of the run
KeySpace ==
    /\ game_over \/ (world_x % JumpEvery = 0 /\ ObstacleNear)
    /\ vel_y' = jump(vel_y)
    /\ last' = "space"
    /\ UNCHANGED <<player_y, world_x, obstacles, game_over, call, ret, reach>>

\* mutant: the obstacle list survives the reset
reset_game_keep_obstacles ==
    /\ player_y' = start_y
    /\ vel_y' = 0
    /\ world_x' = 0
    /\ game_over' = FALSE
    /\ UNCHANGED obstacles

reset_game ==
    /\ player_y' = start_y
    /\ vel_y' = 0
    /\ world_x' = 0
    /\ obstacles' = <<>>
    /\ game_over' = FALSE

\* mutant: K_r resets in either state of the run
KeyRAlways ==
    /\ reset_game
    /\ last' = "reset"
    /\ UNCHANGED <<call, ret, reach>>

\* KEYDOWN K_r (lines 279-280): reset_game, only when the game is over
KeyR ==
    /\ IF game_over THEN reset_game ELSE UNCHANGED gameVars
    /\ last' = IF game_over THEN "reset" ELSE "r"
    /\ UNCHANGED <<call, ret, reach>>

\* update_world, lines 393-411
\* mutant: the world keeps moving when the game is over
update_world_no_return ==
    LET wx == world_x + speed
        p == update_position(player_y, vel_y)
    IN  \E g \in (IF NeedsSpawn(obstacles, wx)
                  THEN calculate_gap_position(obstacles) ELSE {0}) :
           LET spawned == IF NeedsSpawn(obstacles, wx)
                          THEN spawn_obstacle(obstacles, g) ELSE obstacles
               kept == OnScreen(spawned, wx)
           IN  /\ world_x' = wx /\ player_y' = p.y /\ vel_y' = p.vel_y
               /\ obstacles' = kept
               /\ game_over' = CollisionAt(PX(player_x), p.y, PX(radius), kept, wx)

update_world ==
    IF game_over THEN UNCHANGED gameVars
    ELSE LET wx == world_x + speed
             p == update_position(player_y, vel_y)
         IN  \E g \in (IF NeedsSpawn(obstacles, wx)
                       THEN calculate_gap_position(obstacles) ELSE {0}) :
                LET spawned == IF NeedsSpawn(obstacles, wx)
                               THEN spawn_obstacle(obstacles, g) ELSE obstacles
                    kept == OnScreen(spawned, wx)
                IN  /\ world_x' = wx
                    /\ player_y' = p.y
                    /\ vel_y' = p.vel_y
                    /\ obstacles' = kept
                    /\ game_over' = CollisionAt(PX(player_x), p.y, PX(radius), kept, wx)

\* one iteration of the loop of run (lines 459-463) past its events
Frame ==
    /\ update_world
    /\ last' = "tick"
    /\ UNCHANGED <<call, ret, reach>>

Tick == world_x < MaxWorldX /\ Frame

Next == KeySpace \/ KeyR \/ Tick

Spec == Init /\ [][Next]_vars

(***************************************************************************)
(* Claims checked under Spec                                               *)
(***************************************************************************)
WellFormed(o) ==
    /\ o.gap_y >= 0
    /\ o.gap_y + o.gap <= HEIGHT
    /\ o.r1_height >= 0
    /\ o.r2_height >= 0
    /\ o.r1_height + o.gap + o.r2_height = HEIGHT

\* C2: every live obstacle has its gap on the screen, two blocks of
\* non-negative height, and blocks and gap that add up to the screen height.
C2_ObstaclesWellFormed == \A i \in 1..Len(obstacles) : WellFormed(obstacles[i])

\* a run has spawned gaps at the top (gap_y = 0) and at the bottom of the screen
C2_Witness ==
    /\ \E i \in 1..Len(obstacles) : obstacles[i].gap_y = 0
    /\ \E i \in 1..Len(obstacles) : obstacles[i].gap_y = HEIGHT - obstacles[i].gap

\* the window of a spawn after a predecessor with gap top y0
\* (tabulated once over the gap tops an obstacle can have)
WindowAfter(y0) == WindowTable[y0]

InWindow(y0, gy) ==
    LET w == WindowAfter(y0) IN w.highest <= gy /\ gy <= w.lowest

\* the clamp of Obstacle.__init__ moves neither end of the window (and so,
\* being monotone, no value between them)
Unclamped(y0) ==
    LET w == WindowAfter(y0)
    IN  /\ Obstacle(0, calculate_gap_height, w.highest).gap_y = w.highest
        /\ Obstacle(0, calculate_gap_height, w.lowest).gap_y = w.lowest

FirstSpawnX == PrevOf(<<>>).x + calculate_spawn_distance.min_dist

\* C3: the window of the spawn to come is not empty and lies where the
\* constructor's clamp is the identity, and every obstacle in the list has its
\* gap_y inside the window computed from its predecessor (the first obstacle
\* of a run: from the default HEIGHT // 2).
C3_WindowHoldsGap ==
    /\ LET w == WindowAfter(PrevOf(obstacles).gap_y) IN w.highest <= w.lowest
    /\ Unclamped(PrevOf(obstacles).gap_y)
    /\ \A i \in 1..Len(obstacles) :
          /\ i > 1 => InWindow(obstacles[i - 1].gap_y, obstacles[i].gap_y)
          /\ obstacles[i].world_x = FirstSpawnX =>
                 InWindow(HEIGHT \div 2, obstacles[i].gap_y)

\* gaps drawn at both ends of their windows, the lower end being the one
\* math.ceil raises by a pixel (0 -> 261) and the one HEIGHT - gap caps
C3_Witness ==
    /\ \E i \in 2..Len(obstacles) :
          obstacles[i - 1].gap_y = 0 /\ obstacles[i].gap_y = 261
    /\ \E i \in 2..Len(obstacles) :
          obstacles[i].gap_y = WindowAfter(obstacles[i - 1].gap_y).highest
    /\ \E i \in 2..Len(obstacles) :
          obstacles[i].gap_y = HEIGHT - calculate_gap_height

\* C6: game_over becomes true only in an update_world whose collision test is
\* true for the updated player and obstacles, becomes false only by the reset
\* key, and the reset key changes nothing while the game is running.
C6_RunStateMachine ==
    [][ /\ (~game_over /\ game_over') => (last' = "tick" /\ collision')
        /\ (~game_over /\ last' = "tick" /\ collision') => game_over'
        /\ (game_over /\ ~game_over') => last' = "reset"
        /\ (~game_over /\ last' \in {"r", "reset"}) => UNCHANGED gameVars ]_vars

\* the run ended by a collision
C6_Witness == game_over /\ collision /\ last = "tick"

\* C7: the reset key pressed when the game is over gives the initial state,
\* whatever the state was, and pressed again leaves it the initial state.
C7_ResetIsInitial ==
    [][ /\ (game_over /\ last' \in {"r", "reset"}) => GameInit'
        /\ (GameInit /\ last' \in {"r", "reset"}) => GameInit' ]_vars

\* the run was reset from a game-over state
C7_Witness == last = "reset" /\ GameInit

\* C8: after every update_position the player is not below the ground line,
\* and a call that applied the ground clamp leaves vel_y = 0.
C8_GroundClamp ==
    [][ (~game_over /\ last' = "tick") =>
            /\ player_y' <= Ground
            /\ ClampApplies(player_y, vel_y) => (player_y' = Ground /\ vel_y' = 0) ]_vars

\* a player that jumped is back on the ground
C8_Witness == last = "tick" /\ player_y = Ground /\ vel_y = 0 /\ world_x > 300 /\ ~game_over

(***************************************************************************)
(* SpecFn: the constructor, calculate_gap_position and collision called    *)
(* on arguments of the caller's choice.  Each action is one call and its   *)
(* return.                                                                 *)
(***************************************************************************)
ArgX == {0, 471}
ArgGap == {-10, 0, 165, 1000, 1001, 1200}
ArgGapY == {-50, 0, 500, 835, 900, 1000, 1100, 1500}
ArgY0 == {0, 251, 252, 500, 835, 836, 900, 1000}
ArgDistance == {0, 10, 51}
ArgGapHeight == {165, 1000, 1100}
ArgScreenX == {139, 140, 150, 175, 183, 185, 186}
ArgRadius == {0, PX(radius)}
ArgPlayerY == {0, 4000, 5000, 5060, 5061, 5099, 5100, 5101, 5800, 6549, 6550, 6551,
               6590, 6650, 7000, 8350, 9900}
ArgObstacleGapY == {0, 500, 835}

FnInit == GameInit /\ last = "init" /\ Idle

\* Obstacle(x, gap, gap_y)
CallObstacle ==
    /\ \E x \in ArgX, gap \in ArgGap, gap_y \in ArgGapY :
          /\ call' = [op |-> "Obstacle", x |-> x, gap |-> gap, gap_y |-> gap_y]
          /\ ret' = [op |-> "Obstacle", obstacle |-> Obstacle(x, gap, gap_y)]
    /\ UNCHANGED <<gameVars, last, reach>>

\* calculate_gap_position(y0, x_distance, gap_height): the three values
\* returned, or the ValueError random.randint raises on an empty range
CallGapPosition ==
    /\ \E y0 \in ArgY0, d \in ArgDistance, h \in ArgGapHeight :
          LET w == GapWindow(y0, d, h)
          IN  /\ call' = [op |-> "calculate_gap_position", y0 |-> y0,
                          x_distance |-> d, gap_height |-> h]
              /\ IF w.highest > w.lowest
                 THEN ret' = [op |-> "calculate_gap_position", error |-> "ValueError",
                              highest |-> w.highest, lowest |-> w.lowest, gap_position |-> 0]
                 ELSE \E g \in RandInt(w.highest, w.lowest) :
                        ret' = [op |-> "calculate_gap_position", error |-> "none",
                                highest |-> w.highest, lowest |-> w.lowest,
                                gap_position |-> g]
    /\ UNCHANGED <<gameVars, last, reach>>

\* collision() with one live obstacle at screen position sx, for a player of
\* radius r (tenths) centred at (player_x, py)
CallCollision ==
    /\ \E sx \in ArgScreenX, r \in ArgRadius, py \in ArgPlayerY, gy \in ArgObstacleGapY :
          LET o == Obstacle(FirstSpawnX, calculate_gap_height, gy)
              wx == FirstSpawnX - sx
          IN  /\ call' = [op |-> "collision", r |-> r, py |-> py, obstacle |-> o, wx |-> wx]
              /\ ret' = [op |-> "collision",
                         hit |-> CollisionAt(PX(player_x), py, r, <<o>>, wx)]
    /\ UNCHANGED <<gameVars, last, reach>>

ArgReach == {0, 2, 10, 24, 25, 26, 40, 51}
ArgVel == {jump_power, -8, 0, 8, 200}

\* a live Player at rest at height y that, for floor(x / speed) frames, calls
\* jump() on the frames whose index is a multiple of floor(FPS /
\* max_jumps_per_second) (when jumping) and then update_position():
\* its largest rise and its final descent, in tenths
RECURSIVE LivePlayer(_, _, _, _, _, _)
LivePlayer(i, frames, y, v, jumping, top) ==
    IF i >= frames THEN [top |-> top, y |-> y]
    ELSE LET v0 == IF jumping /\ i % (FPS \div max_jumps_per_second) = 0
                   THEN jump(v) ELSE v
             p == update_position(y, v0)
         IN  LivePlayer(i + 1, frames, p.y, p.vel_y, jumping, Min(top, p.y))

LiveRise(x) == start_y - LivePlayer(0, x \div speed, start_y, 0, TRUE, start_y).top
LiveFall(x) == LivePlayer(0, x \div speed, 0, 0, FALSE, 0).y

\* calculate_max_height_increase(x), beside the rise of the live player
CallMaxHeightIncrease ==
    /\ \E x \in ArgReach :
          /\ call' = [op |-> "calculate_max_height_increase", x |-> x]
          /\ ret' = [op |-> "calculate_max_height_increase",
                     value |-> calculate_max_height_increase(x), live |-> LiveRise(x)]
    /\ UNCHANGED <<gameVars, last, reach>>

\* calculate_max_height_decrease(x), beside the fall of the live player
CallMaxHeightDecrease ==
    /\ \E x \in ArgReach :
          /\ call' = [op |-> "calculate_max_height_decrease", x |-> x]
          /\ ret' = [op |-> "calculate_max_height_decrease",
                     value |-> calculate_max_height_decrease(x), live |-> LiveFall(x)]
    /\ UNCHANGED <<gameVars, last, reach>>

\* Player.update_position on a player at y with velocity v
CallUpdatePosition ==
    /\ \E y \in ArgPlayerY, v \in ArgVel :
          /\ call' = [op |-> "update_position", y |-> y, v |-> v]
          /\ ret' = [op |-> "update_position", p |-> update_position(y, v)]
    /\ UNCHANGED <<gameVars, last, reach>>

FnNext ==
    \/ CallObstacle
    \/ CallGapPosition
    \/ CallCollision
    \/ CallMaxHeightIncrease
    \/ CallMaxHeightDecrease
    \/ CallUpdatePosition

SpecFn == FnInit /\ [][FnNext]_vars

\* C4 (as claimed): calculate_gap_position never ends in an error; an inverted
\* window is swapped and the position returned lies between the two bounds.
C4_InvertedWindowSwapped ==
    ret.op = "calculate_gap_position" =>
        /\ ret.error = "none"
        /\ Min(ret.highest, ret.lowest) <= ret.gap_position
        /\ ret.gap_position <= Max(ret.highest, ret.lowest)

\* C5 (as claimed): whatever the arguments, a constructed obstacle has its gap
\* on the screen and two blocks of non-negative height.
C5_NoMalformedObstacle ==
    ret.op = "Obstacle" =>
        /\ 0 <= ret.obstacle.gap_y
        /\ ret.obstacle.gap_y + ret.obstacle.gap <= HEIGHT
        /\ ret.obstacle.r1_height >= 0
        /\ ret.obstacle.r2_height >= 0

\* distance from p to the interval [a, b]
Outside(p, a, b) == IF p < a THEN a - p ELSE IF p > b THEN p - b ELSE 0

\* squared distance, in tenths, from the player's centre to block k (1: top,
\* 2: bottom) of the obstacle of the call
BlockDistSq(c, k) ==
    LET o == c.obstacle
        x == PX(o.world_x - c.wx)
        ry == IF k = 1 THEN PX(o.r1_y) ELSE PX(o.r2_y)
        rh == IF k = 1 THEN PX(o.r1_height) ELSE PX(o.r2_height)
        ox == Outside(PX(player_x), x, x + PX(o.width))
        oy == Outside(c.py, ry, ry + rh)
    IN  ox * ox + oy * oy

\* C9: collision() is true exactly when some block is nearer to the centre
\* than the radius: a centre inside a block collides when radius > 0, a circle
\* touching a block does not, and radius 0 on a block's corner does not.
C9_CollisionIsStrict ==
    ret.op = "collision" =>
        /\ ret.hit <=> \E k \in {1, 2} : BlockDistSq(call, k) < call.r * call.r
        /\ (call.r > 0 /\ \E k \in {1, 2} : BlockDistSq(call, k) = 0) => ret.hit
        /\ (\A k \in {1, 2} : BlockDistSq(call, k) >= call.r * call.r) => ~ret.hit
        /\ call.r = 0 => ~ret.hit

\* a circle touching the corner of the top block: 8 px to the side, 6 px below
C9_Witness ==
    /\ ret.op = "collision"
    /\ call.r = PX(radius)
    /\ BlockDistSq(call, 1) = call.r * call.r
    /\ BlockDistSq(call, 2) > call.r * call.r
    /\ PX(call.obstacle.world_x - call.wx) > PX(player_x)
    /\ call.py > PX(call.obstacle.r1_height)
    /\ ~ret.hit

(***************************************************************************)
(* SpecNoJump: a fresh run in which SPACE is never pressed, for the        *)
(* N = floor((WIDTH - player x) / speed) frames of the end-to-end scenario *)
(***************************************************************************)
NFrames == (WIDTH - player_x) \div speed

NoJumpFrame == world_x < speed * NFrames /\ Frame

SpecNoJump == Init /\ [][NoJumpFrame]_vars

\* the loop of Game.run does not stop: a frame that can run does run
SpecNoJumpFair == SpecNoJump /\ WF_vars(NoJumpFrame)

\* C10 (as claimed): in the run without jumps y never decreases, the ground
\* clamp is applied in one frame only, and vel_y is 0 after every frame from
\* the clamp onward.
C10_SingleClampEvent ==
    [][ (~game_over /\ last' = "tick") =>
            /\ player_y' >= player_y
            /\ ClampApplies(player_y, vel_y) => player_y # Ground
            /\ player_y = Ground => vel_y' = 0 ]_vars

\* C10 (amended): in the run without jumps y never decreases, the player
\* lands once and stays on the ground, the ground clamp being applied in every
\* frame from the landing until the game is over, and vel_y is 0 after each
\* of these frames.
C10_LandsOnceAndStays ==
    [][ (~game_over /\ last' = "tick") =>
            /\ player_y' >= player_y
            /\ ClampApplies(player_y, vel_y) => (player_y' = Ground /\ vel_y' = 0)
            /\ player_y = Ground => ClampApplies(player_y, vel_y) ]_vars

\* the player has been resting on the ground for many frames of the run
C10_Witness ==
    last = "tick" /\ ~game_over /\ player_y = Ground /\ vel_y = 0 /\ world_x >= 200

(***************************************************************************)
(* SpecPass: two consecutive obstacles taken alone.  The first has its gap *)
(* top at y0; the second is spawned after it by spawn_obstacle.  reach is  *)
(* the set of player states (y, vel_y) that some sequence of jump inputs   *)
(* leads to without collision() having been true: every frame applies      *)
(* jump (or not) and update_position to each state and drops the states    *)
(* that collide.  The player starts at rest in the first gap, 30 px above  *)
(* its lower edge, one frame before the first obstacle can touch it; jumps *)
(* are tried only for a falling player.  Obstacles are 76 px apart and the *)
(* circle is 20 px wide, so in a full list the obstacle before the first   *)
(* is behind the player, and the one after the second out of reach, for    *)
(* all of these frames.                                                    *)
(***************************************************************************)
PassY0 == {0, 1, 50, 100, 150, 208, 209, 251, 252, 300, 400, 500, 574, 575, 650, 700, 790, 834, 835}

PassStartWX == FirstSpawnX - (player_x + radius)

PassDraws(obs) ==
    LET w == SpawnWindow(obs)
    IN  {n \in w.highest..w.lowest :
            n = w.highest \/ n = w.lowest \/ (n - w.highest) % PassStep = 0}

PassInit ==
    /\ \E y0 \in PassY0 :
          /\ obstacles = <<Obstacle(FirstSpawnX, calculate_gap_height, y0)>>
          /\ reach = {[y |-> PX(y0 + calculate_gap_height - 3 * radius), vel_y |-> 0]}
    /\ world_x = PassStartWX
    /\ player_y = start_y
    /\ vel_y = 0
    /\ game_over = FALSE
    /\ last = "init"
    /\ call = [op |-> "none"]
    /\ ret = [op |-> "none"]

\* spawn_obstacle after the first obstacle
PassSpawn ==
    /\ Len(obstacles) = 1
    /\ \E g \in PassDraws(obstacles) : obstacles' = spawn_obstacle(obstacles, g)
    /\ last' = "spawn"
    /\ UNCHANGED <<player_y, vel_y, world_x, game_over, call, ret, reach>>

\* the player states one frame later: K_SPACE or not, then update_world's
\* scroll, update_position and collision test
FrameImage(states, obs, wx) ==
    LET moved == {update_position(s.y, s.vel_y) : s \in states}
                 \cup {update_position(s.y, jump(s.vel_y)) : s \in {t \in states : t.vel_y >= 0}}
    IN  {s \in moved : ~CollisionAt(PX(player_x), s.y, PX(radius), obs, wx)}

Behind(o, wx) == get_screen_x(o, wx) + o.width <= player_x - radius

PassFrame ==
    /\ Len(obstacles) = 2
    /\ ~Behind(obstacles[2], world_x)
    /\ world_x' = world_x + speed
    /\ reach' = FrameImage(reach, obstacles, world_x + speed)
    /\ last' = "tick"
    /\ UNCHANGED <<player_y, vel_y, obstacles, game_over, call, ret>>

PassNext == PassSpawn \/ PassFrame

SpecPass == PassInit /\ [][PassNext]_vars

\* C1: whatever gap top the first obstacle has and whatever gap_y is drawn for
\* the second, some sequence of jump inputs takes a player from inside the
\* first gap through the second gap without a collision with either obstacle.
C1_Passable == reach # {}

\* a player is through a second gap that lies at the low end of its window,
\* 261 px below the first
C1_Witness ==
    /\ Len(obstacles) = 2
    /\ Behind(obstacles[2], world_x)
    /\ obstacles[2].gap_y = obstacles[1].gap_y + 261
    /\ reach # {}

(***************************************************************************)
(* Claims about the reach simulations, checked under SpecFn                *)
(***************************************************************************)
\* C11 (as claimed): calculate_max_height_increase(d) is the largest rise of a
\* live player that starts at rest and jumps at the maximum rate for
\* floor(d / speed) frames.
C11_IncreaseIsLiveRise ==
    ret.op = "calculate_max_height_increase" => ret.value = ret.live

\* C14: a frame of update_position that does not reach the ground adds gravity
\* to vel_y and then the new vel_y to y; calculate_max_height_decrease(d) is
\* the descent of a live player falling from rest for floor(d / speed) frames,
\* and calculate_max_height_increase(d) the rise of a live player over the
\* frames of its first impulse.
C14_GravityThenPosition ==
    /\ (ret.op = "update_position" /\ ~ClampApplies(call.y, call.v)) =>
           /\ ret.p.vel_y = call.v + gravity
           /\ ret.p.y = call.y + ret.p.vel_y
    /\ ret.op = "calculate_max_height_decrease" => ret.value = ret.live
    /\ (ret.op = "calculate_max_height_increase"
          /\ call.x \div speed <= FPS \div max_jumps_per_second) => ret.value = ret.live

\* the fall over the spawn distance: 25 frames, 260 px
C14_Witness ==
    /\ ret.op = "calculate_max_height_decrease"
    /\ call.x = calculate_spawn_distance.min_dist
    /\ ret.value = PX(260)
    /\ ret.live = PX(260)

(***************************************************************************)
(* Claims about the running game, checked under Spec                       *)
(***************************************************************************)
\* C15: get_max_rise is jump_power^2 / (2 * gravity), reached after
\* t_up = |jump_power| / gravity = 15 frames, which is 90 px for the values of
\* the program, and the gap of every spawned obstacle is at least
\* 2 * radius + rise (the value of get_min_gap, 110 px).
C15_GapAtLeastMinGap ==
    /\ get_max_rise * 2 * gravity = jump_power * jump_power
    /\ Abs(jump_power) = 15 * gravity
    /\ get_max_rise = PX(90)
    /\ get_min_gap = 110
    /\ \A i \in 1..Len(obstacles) :
          /\ PX(obstacles[i].gap) >= PX(2 * radius) + get_max_rise
          /\ obstacles[i].gap >= get_min_gap

\* five obstacles are live, all spawned with the generated gap height
C15_Witness ==
    /\ last = "tick"
    /\ Len(obstacles) >= 5
    /\ \A i \in 1..Len(obstacles) : obstacles[i].gap = 165

\* the world_x of the obstacles of a list
SpawnXs(obs) == {obs[i].world_x : i \in 1..Len(obs)}

\* C12: on a tick of the running game exactly one obstacle is appended if the
\* list is empty or the screen x of its last obstacle, after the scroll of this
\* tick, is below WIDTH, and none is appended otherwise.
C12_OneSpawnPerTick ==
    [][(~game_over /\ world_x' = world_x + speed) =>
          LET need == \/ obstacles = <<>>
                      \/ obstacles[Len(obstacles)].world_x - world_x' < WIDTH
              appended == {i \in 1..Len(obstacles') :
                              obstacles'[i].world_x \notin SpawnXs(obstacles)}
          IN  /\ Cardinality(appended) = (IF need THEN 1 ELSE 0)
              /\ need => appended = {Len(obstacles')}]_vars

\* the sixth obstacle is appended on tick 38, when the fifth has scrolled to 699
C12_Witness ==
    /\ last = "tick"
    /\ world_x = 76
    /\ Len(obstacles) = 6
    /\ obstacles[5].world_x - world_x = WIDTH - 1

\* C13: after a tick of the running game every live obstacle has its right
\* edge (screen x + width) above 0, and no step other than a reset removes an
\* obstacle whose right edge is above 0: an obstacle leaves the list exactly
\* when its right edge is at or left of the screen's left edge.
C13_RemovedWhenOffScreen ==
    [][/\ (~game_over /\ world_x' = world_x + speed) =>
             \A i \in 1..Len(obstacles') :
                obstacles'[i].world_x - world_x' + obstacles'[i].width > 0
       /\ last' # "reset" =>
             \A i \in 1..Len(obstacles) :
                obstacles[i].world_x - world_x' + obstacles[i].width > 0 =>
                   \E j \in 1..Len(obstacles') : obstacles'[j] = obstacles[i]]_vars

\* the tick on which the first obstacle's right edge reaches 0 removes it
C13_Witness ==
    /\ last = "tick"
    /\ ~game_over
    /\ FirstSpawnX - world_x + OBSTACLE_WIDTH = 0
    /\ obstacles # <<>>
    /\ obstacles[1].world_x > FirstSpawnX

\* C16: after every step the list is ordered by strictly increasing world_x,
\* each obstacle lies at its predecessor's world_x + width + d, where d is the
\* distance the gap window is computed for (the minimum spawn distance of
\* WindowTable; its gap_y is inside that window), and an obstacle that stays in the list
\* keeps its world_x, width, gap and gap_y.
C16_SpacedAndImmutable ==
    [][/\ \A i \in 2..Len(obstacles') :
             LET prev == obstacles'[i - 1]
                 d == obstacles'[i].world_x - prev.world_x - prev.width
             IN  /\ prev.world_x < obstacles'[i].world_x
                 /\ d = calculate_spawn_distance.min_dist
                 /\ InWindow(prev.gap_y, obstacles'[i].gap_y)
       /\ \A i \in 1..Len(obstacles') :
             obstacles'[i].world_x \in SpawnXs(obstacles) =>
                \E j \in 1..Len(obstacles) : obstacles[j] = obstacles'[i]]_vars

\* the list after a removal and several spawns: the survivors are the
\* obstacles they were, 76 px apart
C16_Witness ==
    /\ last = "tick"
    /\ Len(obstacles) >= 5
    /\ obstacles[1].world_x > FirstSpawnX
    /\ \A i \in 2..Len(obstacles) :
          obstacles[i].world_x = obstacles[i - 1].world_x + OBSTACLE_WIDTH + 51

\* C17: once a run has had a tick (world_x > 0) the obstacle list is not empty
\* until the next reset, so the default predecessor (x = 0.6 * WIDTH,
\* gap_y = HEIGHT // 2) serves the first obstacle of a run only.
C17_NeverEmptyAfterFirstTick ==
    /\ world_x > 0 => obstacles # <<>>
    /\ (obstacles # <<>> /\ obstacles[1].world_x = FirstSpawnX) =>
          InWindow(PrevOf(<<>>).gap_y, obstacles[1].gap_y)

\* the first obstacle of the run has been removed and the list is not empty
C17_Witness ==
    /\ last = "tick"
    /\ ~game_over
    /\ world_x > FirstSpawnX + OBSTACLE_WIDTH
    /\ Len(obstacles) >= 1
    /\ obstacles[1].world_x = FirstSpawnX + OBSTACLE_WIDTH + 51

\* C18: while the game is over, ticks and jump inputs leave the world offset,
\* the player's position and the obstacle list as they are and the game stays
\* over; only a reset changes them.
C18_FrozenWhileGameOver ==
    [][game_over =>
          /\ last' \in {"tick", "space"} =>
                /\ UNCHANGED <<world_x, player_y, obstacles>>
                /\ game_over'
          /\ ~(UNCHANGED <<world_x, player_y, obstacles>>) => last' = "reset"]_vars

\* a jump input and then a tick have happened while the game was over: the
\* velocity set by the jump has not been integrated
C18_Witness ==
    /\ game_over
    /\ last = "tick"
    /\ vel_y = jump_power
    /\ world_x > 0

(***************************************************************************)
(* Claim about the run without jump input, checked under SpecNoJumpFair    *)
(***************************************************************************)
\* C19: the run without jump input reaches game over; it is not over only
\* while the first obstacle of the run is more than 8 px right of the player's
\* centre, and when it is over the player is resting on the ground and
\* overlaps the bottom block of the first obstacle of the run, which is still
\* the head of the list (no obstacle has been removed).
C19_NoJumpEndsInGameOver ==
    /\ <>game_over
    /\ []((~game_over /\ obstacles # <<>>) =>
            /\ obstacles[1].world_x = FirstSpawnX
            /\ get_screen_x(obstacles[1], world_x) > player_x + 8)
    /\ [](game_over =>
            /\ player_y = Ground
            /\ vel_y = 0
            /\ obstacles # <<>>
            /\ obstacles[1].world_x = FirstSpawnX
            /\ LET o == obstacles[1]
               IN  BlockHit(PX(player_x), player_y, PX(radius),
                            PX(get_screen_x(o, world_x)), PX(o.width),
                            PX(o.r2_y), PX(o.r2_height)))

\* the game is over with the player on the ground, 8 px left of the first
\* obstacle's left edge
C19_Witness ==
    /\ game_over
    /\ last = "tick"
    /\ player_y = Ground
    /\ obstacles # <<>>
    /\ get_screen_x(obstacles[1], world_x) = player_x + 8
    /\ obstacles[1].world_x = FirstSpawnX

====
